---- MODULE Spec2Model ----
(***************************************************************************)
(* Model of the authentication handlers of aries-blog                      *)
(* (src/unnamed/part_000, package api): Register, Login, CreateCaptcha,    *)
(* ForgetPwd and ResetPwd, together with the collaborators they call: the  *)
(* relational store (users, settings groups, settings items), the captcha  *)
(* store, the TTL cache of verification codes and the mailer; and of the   *)
(* link model (src/model/link.go).                                         *)
(*                                                                         *)
(* Requests are served concurrently.  A handler is a sequence of steps,    *)
(* one per call to the store, the captcha store, the cache or the mailer;  *)
(* the code between two calls belongs to the step of the call it prepares  *)
(* or follows.  The steps of the requests in flight interleave freely.     *)
(* The step that answers a request leaves the response in `result`.  Time  *)
(* passes through Tick, which ages the cache entries.                      *)
(***************************************************************************)
EXTENDS Integers, Sequences, FiniteSets, TLC

\* ------------------------------------------------------------------ bounds
\* number of captcha challenges that may be issued in one run
MaxCaptcha == 1
\* minutes that pass in one Tick
TickMinutes == 8
\* number of links that may be created in one run
MaxLinks == 2
\* longest ids string passed to Link.MultiDelByIds, in characters
MaxIdsLen == 3
\* setting.Config.Server.TokenExpireTime, the configured token lifetime in seconds
TokenExpireTime == 2
\* the clock readings of a Login, in seconds, range over 0..MaxClock
MaxClock == 1
\* number of user records that may be created in one run
MaxUsers == 2

\* ------------------------------------------------------- program constants
\* time.Minute*15, the TTL of a verification code (part_000:253)
CodeTTL == 15
\* utils.CreateRandomCode(6) (part_000:252)
CodeLen == 6

\* ------------------------------------------------------------ input values
\* the texts an internal error may carry
Errors == {"e1", "e2"}
Usernames == {"alice", "bob"}
Passwords == {"pw1", "pw2"}
Emails == {"a@x.com", "b@x.com"}
Answers == {"k7", "m3"}
SiteNames == {"Blog"}
SiteUrls == {"http://x"}
\* the values utils.CreateRandomCode(6) may return
Codes == {"AAAAAA", "BBBBBB"}
CaptchaIds == 1..MaxCaptcha
\* an id the captcha store never issues
UnknownCaptchaId == MaxCaptcha + 1

\* ----------------------------------------------------------- result codes
Success == "success"
RequestError == "request-error"
ServerError == "server-error"

\* response messages (ASCII renderings of the literals in the source)
MsgRegisterOk == "register ok"
MsgUserRegistered == "user already registered"
MsgServerError == "server error"
MsgLoginOk == "login ok"
MsgCaptchaWrong == "captcha wrong"
MsgNoSuchUser == "no such user"
MsgPwdWrong == "password wrong"
MsgCaptchaOk == "captcha created"
MsgNoSuchEmail == "no such email account"
MsgSendFailed == "code send failed, check smtp config"
MsgSendOk == "code sent, check mailbox"
MsgCodeInvalid == "code invalid or wrong"
MsgResetOk == "reset password ok"
\* utils.GetFormError(err): the message of a failed form binding
MsgFormError == "form error"

NoData == [kind |-> "nil"]
NoResult == [code |-> "", msg |-> "", data |-> NoData]
NoMail == [to |-> "", username |-> "", code |-> "", delivered |-> FALSE]
NoEntry == [code |-> "", ttl |-> 0]
NoForm == [kind |-> "nil"]
\* the zero value of models.User
ZeroUser == [id |-> 0, username |-> "", pwd |-> <<>>, email |-> "", userImg |-> ""]

\* the requests that may be in flight at the same time
Procs == {"p1", "p2"}
IdleProc == [pc |-> "idle"]

VARIABLES
  users,        \* table of users: sequence of user records, id = index
  sysSettings,  \* table of settings groups: sequence of [id, name]
  sysItems,     \* table of settings items: set of [sysId, key, val]
  captchaStore, \* captcha id -> expected answer, "" when not in the store
  captchaIssued,\* number of captcha ids issued so far
  cache,        \* setting.Cache: email -> [code, ttl]; ttl is the minutes left,
                \* 0 once the entry has expired; NoEntry when never set
  mail,         \* the message composed for the last answered request, or NoMail
  result,       \* utils.Result of the last answered request
  lastOp,       \* history: the handler of the last answered request
  lastReq,      \* history: the form of the last answered request
  flip,         \* history: toggles at every answered request
  submitted,    \* history: captcha id -> times it reached CaptchaVerify (capped at 2)
  replaced,     \* history: the code the last answered request found expired when it
                \* arrived and replaced by the one it issued, else ""
  logged,       \* the error text the last answered request wrote to the log, "" when none
  failed,       \* history: the call of the last answered request that returned an error
  follow,       \* history: how the last answered request relates to the one before it
  links,        \* table of links: [rows: set of [id, name, deletedAt], seq: last id]
  procs         \* the requests in flight: process -> [pc, form and local variables]

vars == <<users, sysSettings, sysItems, captchaStore, captchaIssued, cache,
          mail, result, lastOp, lastReq, flip, submitted, replaced,
          logged, failed, follow, links, procs>>

store == <<users, sysSettings, sysItems>>

\* what the answer to a request writes
response == <<result, mail, lastOp, lastReq, flip, logged, failed, follow, replaced>>

\* ------------------------------------------------------------- persistence
\* user.GetByUsername(): the stored user with that username, else the zero user
GetByUsername(us, name) ==
  IF \E i \in 1..Len(us) : us[i].username = name
  THEN us[CHOOSE i \in 1..Len(us) : us[i].username = name
                                    /\ \A j \in 1..(i-1) : us[j].username # name]
  ELSE ZeroUser

\* User{Email: e}.GetByEmail(): the first stored user with that email, else zero
GetByEmail(us, email) ==
  IF \E i \in 1..Len(us) : us[i].email = email
  THEN us[CHOOSE i \in 1..Len(us) : us[i].email = email
                                    /\ \A j \in 1..(i-1) : us[j].email # email]
  ELSE ZeroUser

\* u, _ := lookup: the handlers discard the error of a lookup, so a lookup
\* that fails hands them the zero user exactly as a lookup that finds nothing
Looked(ok, found) == IF ok THEN found ELSE ZeroUser

\* the stored form of a password (a salted hash, never the plaintext)
HashPwd(p) == <<"hash", p>>

\* utils.VerifyPwd(hashed, plain)
VerifyPwd(hashed, plain) == hashed = HashPwd(plain)

\* user.Create(): insert with the next id
UserCreate(us, u) == Append(us, [u EXCEPT !.id = Len(us) + 1])

\* user.UpdatePwd(): set the password of the records identified by the email
UserUpdatePwd(us, email, hashed) ==
  [i \in 1..Len(us) |-> IF us[i].email = email
                        THEN [us[i] EXCEPT !.pwd = hashed] ELSE us[i]]

\* sysSetting.Create(): insert with the next id
SysSettingCreate(ss, name) == Append(ss, [id |-> Len(ss) + 1, name |-> name])

\* SysSettingItem{}.MultiCreateOrUpdate(sysId, list): upsert keyed by (sysId, key)
MultiCreateOrUpdate(items, sysId, list) ==
  {it \in items : ~(\E n \in list : n.sysId = it.sysId /\ n.key = it.key)}
    \cup list

\* --------------------------------------------------------------- collaborators
\* setting.Cache.Get(key, &v): the cached value; v keeps its initial "" when the
\* key is absent or expired (the error that reports the miss is discarded)
CacheGet(c, email) == IF c[email].ttl > 0 THEN c[email].code ELSE ""

\* setting.Cache.Set(key, v, ttl)
CacheSet(c, email, code, ttl) == [c EXCEPT ![email] = [code |-> code, ttl |-> ttl]]

\* utils.CaptchaVerify: does the submitted answer match the stored challenge
CaptchaVerify(cs, id, val) == id \in DOMAIN cs /\ cs[id] # "" /\ cs[id] = val

\* the challenge stays in the store after a verify
CaptchaKeep(cs, id) == cs

\* utils.CaptchaVerify: the challenge is removed from the store on every verify
CaptchaClear(cs, id) == IF id \in DOMAIN cs THEN [cs EXCEPT ![id] = ""] ELSE cs

\* ShouldBindJSON: every required string field is present
BindOk(fields) == \A i \in 1..Len(fields) : fields[i] # ""

Bump(f, id) == IF id \in DOMAIN f /\ f[id] < 2 THEN [f EXCEPT ![id] = @ + 1] ELSE f

Init ==
  /\ users = <<>>
  /\ sysSettings = <<>>
  /\ sysItems = {}
  /\ captchaStore = [i \in CaptchaIds |-> ""]
  /\ captchaIssued = 0
  /\ cache = [e \in Emails |-> NoEntry]
  /\ mail = NoMail
  /\ result = NoResult
  /\ lastOp = "init"
  /\ lastReq = NoForm
  /\ flip = FALSE
  /\ submitted = [i \in CaptchaIds \cup {UnknownCaptchaId} |-> 0]
  /\ replaced = ""
  /\ logged = ""
  /\ failed = ""
  /\ follow = ""
  /\ links = [rows |-> {}, seq |-> 0]
  /\ procs = [p \in Procs |-> IdleProc]

\* ------------------------------------------------------------------ requests
RegisterForms ==
  [username : Usernames \cup {""}, pwd : Passwords, email : Emails,
   siteName : SiteNames, siteUrl : SiteUrls]
LoginForms ==
  [username : Usernames \cup {""}, pwd : Passwords,
   captchaId : CaptchaIds \cup {UnknownCaptchaId}, captchaVal : Answers]
ForgetPwdForms == [email : Emails \cup {""}]
ResetPwdForms == [email : Emails, verifyCode : Codes \cup {""}, pwd : Passwords]

\* a new request is taken by the first process that serves none
Free(p) == /\ procs[p].pc = "idle"
           /\ p = "p2" => procs["p1"].pc # "idle"

\* the request of process p goes on to its next call
Goto(p, next) == procs' = [procs EXCEPT ![p] = next]

\* the request of process p is answered and the process is free again
Finish(p) == procs' = [procs EXCEPT ![p] = IdleProc]

\* ctx.JSON(http.StatusOK, result): the response and the message composed for it
Respond(op, form, code, msg, data, m) ==
  /\ result' = [code |-> code, msg |-> msg, data |-> data]
  /\ mail' = m
  /\ lastOp' = op
  /\ lastReq' = form
  /\ flip' = ~flip

\* a response that is no server-error: nothing failed, nothing is logged
Reply(op, form, code, msg, data, m) ==
  /\ Respond(op, form, code, msg, data, m)
  /\ logged' = ""
  /\ failed' = ""

\* history of an answer that neither follows up a request nor replaces a code
Plain == follow' = "" /\ replaced' = ""

\* the text of the error is returned to the caller as the message
ServerErrorResultLeaky(msg, err) == [code |-> ServerError, msg |-> err, data |-> NoData]

\* the envelope of a server-error: a fixed message and no data
ServerErrorResult(msg, err) == [code |-> ServerError, msg |-> msg, data |-> NoData]

\* log.Errorln("error: ", err.Error()) followed by the server-error response
ServerFail(op, form, msg, m, step, err) ==
  /\ Respond(op, form, ServerErrorResult(msg, err).code, ServerErrorResult(msg, err).msg,
             ServerErrorResult(msg, err).data, m)
  /\ logged' = err
  /\ failed' = step

\* ------------------------------------------------------------------ Register
\* regForm.BindToModel(): the user to create, the password in its stored form
RegisterBindToModel(form) ==
  [id |-> 0, username |-> form.username, pwd |-> HashPwd(form.pwd),
   email |-> form.email, userImg |-> ""]

\* the site_url item is left out of the list
RegisterItemsNoUrl(sysId, form) ==
  { [sysId |-> sysId, key |-> "type_name", val |-> "site settings"],
    [sysId |-> sysId, key |-> "site_name", val |-> form.siteName] }

\* the three items Register builds for a settings group
RegisterItems(sysId, form) ==
  { [sysId |-> sysId, key |-> "type_name", val |-> "site settings"],
    [sysId |-> sysId, key |-> "site_name", val |-> form.siteName],
    [sysId |-> sysId, key |-> "site_url", val |-> form.siteUrl] }

\* Register: u.Username != "", the lookup handed back a registered user
UsernameTaken(u) == u.username # ""

\* the Register requests that passed the username check and have not yet
\* called user.Create()
Creating == {q \in Procs : procs[q].pc = "reg-create"}

\* Register, first step (lines 61-80): the form is bound and the username
\* looked up; lookupOk is whether user.GetByUsername() returns without error.
\* A rejected request is answered here, any other goes on to user.Create().
RegisterLookup(p, form, lookupOk) ==
  /\ Free(p)
  /\ UNCHANGED <<store, captchaStore, captchaIssued, cache, submitted, links>>
  /\ LET u == Looked(lookupOk, GetByUsername(users, form.username)) IN
     IF ~BindOk(<<form.username, form.pwd, form.email, form.siteName, form.siteUrl>>)
     THEN /\ Reply("Register", form, RequestError, MsgFormError, NoData, NoMail)
          /\ Plain
          /\ UNCHANGED procs
     ELSE IF UsernameTaken(u)
     THEN /\ Reply("Register", form, RequestError, MsgUserRegistered, NoData, NoMail)
          /\ Plain
          /\ UNCHANGED procs
     ELSE /\ Len(users) + Cardinality(Creating) < MaxUsers
          /\ Goto(p, [pc |-> "reg-create", form |-> form])
          /\ UNCHANGED response

\* Register, second step (lines 81-87): user.Create(); ok is whether it returns
\* without error, err the error it returns otherwise
RegisterCreate(p, ok, err) ==
  /\ procs[p].pc = "reg-create"
  /\ UNCHANGED <<sysSettings, sysItems, captchaStore, captchaIssued, cache,
                 submitted, links>>
  /\ IF ~ok
     THEN /\ ServerFail("Register", procs[p].form, MsgServerError, NoMail, "user", err)
          /\ Plain
          /\ Finish(p)
          /\ UNCHANGED users
     ELSE /\ users' = UserCreate(users, RegisterBindToModel(procs[p].form))
          /\ Goto(p, [pc |-> "reg-group", form |-> procs[p].form])
          /\ UNCHANGED response

\* Register, third step (lines 88-95): sysSetting.Create(), which fills in the
\* id of the new group
RegisterGroup(p, ok, err) ==
  /\ procs[p].pc = "reg-group"
  /\ UNCHANGED <<users, sysItems, captchaStore, captchaIssued, cache,
                 submitted, links>>
  /\ IF ~ok
     THEN /\ ServerFail("Register", procs[p].form, MsgServerError, NoMail, "group", err)
          /\ Plain
          /\ Finish(p)
          /\ UNCHANGED sysSettings
     ELSE /\ sysSettings' = SysSettingCreate(sysSettings, "site settings")
          /\ Goto(p, [pc |-> "reg-items", form |-> procs[p].form,
                      sysId |-> Len(sysSettings')])
          /\ UNCHANGED response

\* Register, last step (lines 96-120): the three items are built and upserted
\* under the id of the group, and the request is answered
RegisterUpsert(p, ok, err) ==
  /\ procs[p].pc = "reg-items"
  /\ UNCHANGED <<users, sysSettings, captchaStore, captchaIssued, cache,
                 submitted, links>>
  /\ Plain
  /\ Finish(p)
  /\ IF ~ok
     THEN /\ ServerFail("Register", procs[p].form, MsgServerError, NoMail, "items", err)
          /\ UNCHANGED sysItems
     ELSE /\ sysItems' = MultiCreateOrUpdate(sysItems, procs[p].sysId,
                            RegisterItems(procs[p].sysId, procs[p].form))
          /\ Reply("Register", procs[p].form, Success, MsgRegisterOk, NoData, NoMail)

\* --------------------------------------------------------------------- Login
\* the data of a successful login: utils.Token around the signed claims;
\* first and second are the seconds the two time.Now() of the claims read
TokenData(u, first, second) ==
  [kind |-> "token",
   token |-> [username |-> u.username, userImg |-> u.userImg,
              expiresAt |-> first + TokenExpireTime, issuedAt |-> second],
   userId |-> u.id, username |-> u.username, userImg |-> u.userImg]

\* only the id is checked, the answer is not compared
CaptchaRejectedIdOnly(cs, form) ==
  ~(form.captchaId \in DOMAIN cs /\ cs[form.captchaId] # "")

\* Login: !utils.CaptchaVerify(captchaConfig), the captcha check fails
CaptchaRejected(cs, form) == ~CaptchaVerify(cs, form.captchaId, form.captchaVal)

\* the negation of the password check is lost
PwdRejectedInverted(u, form) == VerifyPwd(u.pwd, form.pwd)

\* Login: !utils.VerifyPwd(u.Pwd, user.Pwd), the password check fails
PwdRejected(u, form) == ~VerifyPwd(u.pwd, form.pwd)

\* Login, first step (lines 132-153): the form is bound and the captcha
\* verified, which consumes the challenge.  Captcha ids are opaque: a request
\* carries an id that was issued or one that never is.
LoginCaptcha(p, form) ==
  /\ Free(p)
  /\ form.captchaId \in (1..captchaIssued) \cup {UnknownCaptchaId}
  /\ UNCHANGED <<store, captchaIssued, cache, links>>
  /\ IF ~BindOk(<<form.username, form.pwd, form.captchaVal>>)
     THEN /\ Reply("Login", form, RequestError, MsgFormError, NoData, NoMail)
          /\ Plain
          /\ UNCHANGED <<captchaStore, submitted, procs>>
     ELSE /\ captchaStore' = CaptchaClear(captchaStore, form.captchaId)
          /\ submitted' = Bump(submitted, form.captchaId)
          /\ IF CaptchaRejected(captchaStore, form)
             THEN /\ Reply("Login", form, RequestError, MsgCaptchaWrong, NoData, NoMail)
                  /\ Plain
                  /\ UNCHANGED procs
             ELSE /\ Goto(p, [pc |-> "login-lookup", form |-> form])
                  /\ UNCHANGED response

\* Login, second step (lines 154-191): the user is looked up, the password
\* verified and the token signed.  lookupOk is whether user.GetByUsername()
\* returns without error, signOk whether j.CreateToken does, err the error it
\* returns otherwise; first and second are the seconds read by the two
\* time.Now() calls that fill ExpiresAt and IssuedAt.
LoginLookup(p, lookupOk, signOk, err, first, second) ==
  /\ procs[p].pc = "login-lookup"
  /\ UNCHANGED <<store, captchaStore, captchaIssued, cache, submitted, links>>
  /\ Plain
  /\ Finish(p)
  /\ LET form == procs[p].form
         u == Looked(lookupOk, GetByUsername(users, form.username))
     IN IF u.username = ""
        THEN Reply("Login", form, RequestError, MsgNoSuchUser, NoData, NoMail)
        ELSE IF PwdRejected(u, form)
        THEN Reply("Login", form, RequestError, MsgPwdWrong, NoData, NoMail)
        ELSE IF ~signOk
        THEN ServerFail("Login", form, MsgServerError, NoMail, "sign", err)
        ELSE Reply("Login", form, Success, MsgLoginOk, TokenData(u, first, second), NoMail)

\* AuthHandler.CreateCaptcha; genOk is whether utils.GenerateCaptcha succeeds
\* (its error is not logged)
CreateCaptcha(answer, genOk) ==
  /\ captchaIssued < MaxCaptcha
  /\ UNCHANGED <<store, cache, submitted, links, procs>>
  /\ Plain
  /\ IF ~genOk
     THEN /\ Respond("CreateCaptcha", NoForm, ServerError, MsgServerError, NoData, NoMail)
          /\ logged' = ""
          /\ failed' = "captcha"
          /\ UNCHANGED <<captchaStore, captchaIssued>>
     ELSE /\ captchaIssued' = captchaIssued + 1
          /\ captchaStore' = [captchaStore EXCEPT ![captchaIssued + 1] = answer]
          /\ Reply("CreateCaptcha", NoForm, Success, MsgCaptchaOk,
                     [kind |-> "captcha", captchaId |-> captchaIssued + 1], NoMail)

\* the captcha store drops a challenge whose TTL has passed
CaptchaExpire(id) ==
  /\ captchaStore[id] # ""
  /\ captchaStore' = [captchaStore EXCEPT ![id] = ""]
  /\ UNCHANGED <<store, captchaIssued, cache, submitted, links, procs>>
  /\ UNCHANGED response

\* ----------------------------------------------------------------- ForgetPwd
\* the test for a missing account is inverted
EmailUnknownInverted(user) == user.username # ""

\* ForgetPwd: user.Username == "", the lookup handed back no account
EmailUnknown(user) == user.username = ""

\* a code is issued on every request
NeedsNewCodeAlways(cached) == TRUE

\* ForgetPwd: verifyCode == "", nothing usable is cached and a code is issued
NeedsNewCode(cached) == cached = ""

\* the issued code is stored only when the email has no entry at all, so an
\* expired entry is not replaced
IssueCodeIfAbsent(c, email, code) ==
  IF c[email] = NoEntry THEN CacheSet(c, email, code, CodeTTL) ELSE c

\* ForgetPwd: setting.Cache.Set(email, verifyCode, time.Minute*15)
IssueCode(c, email, code) == CacheSet(c, email, code, CodeTTL)

\* history: the code of the delivery that failed just before this ForgetPwd
\* arrived for the same email, "" when the last answer is no such failure
RetryOf(form) ==
  IF result.msg = MsgSendFailed /\ mail.to = form.email THEN mail.code ELSE ""

\* history: the code of the email whose TTL has run out, "" when the email has
\* no entry or a live one
ExpiredCode(c, email) == IF c[email].ttl = 0 THEN c[email].code ELSE ""

\* history: this ForgetPwd sends a code it found in the cache; it retries a
\* request whose delivery failed when that code is the one that request held
ForgetFollow(retry, cached) ==
  IF cached = "" THEN ""
  ELSE IF retry = cached THEN "resend-after-send-failure"
  ELSE "resend"

\* ForgetPwd, first step (lines 231-248): the form is bound and the user looked
\* up; lookupOk is whether GetByEmail() returns without error.  The request
\* carries, as history, whether the code of its email had expired at its arrival.
ForgetPwdLookup(p, form, lookupOk) ==
  /\ Free(p)
  /\ UNCHANGED <<store, captchaStore, captchaIssued, cache, submitted, links>>
  /\ LET user == Looked(lookupOk, GetByEmail(users, form.email)) IN
     IF ~BindOk(<<form.email>>)
     THEN /\ Reply("ForgetPwd", form, RequestError, MsgFormError, NoData, NoMail)
          /\ Plain
          /\ UNCHANGED procs
     ELSE IF EmailUnknown(user)
     THEN /\ Reply("ForgetPwd", form, RequestError, MsgNoSuchEmail, NoData, NoMail)
          /\ Plain
          /\ UNCHANGED procs
     ELSE /\ Goto(p, [pc |-> "fp-get", form |-> form, username |-> user.username,
                      retry |-> RetryOf(form),
                      late |-> ExpiredCode(cache, form.email) # ""])
          /\ UNCHANGED response

\* ForgetPwd, second step (lines 249-251): setting.Cache.Get and the test of
\* what it read
ForgetPwdGet(p) ==
  /\ procs[p].pc = "fp-get"
  /\ UNCHANGED <<store, captchaStore, captchaIssued, cache, submitted, links>>
  /\ UNCHANGED response
  /\ LET cached == CacheGet(cache, procs[p].form.email) IN
     IF NeedsNewCode(cached)
     THEN Goto(p, [pc |-> "fp-set", form |-> procs[p].form,
                   username |-> procs[p].username, late |-> procs[p].late])
     ELSE Goto(p, [pc |-> "fp-send", form |-> procs[p].form,
                   username |-> procs[p].username, verifyCode |-> cached,
                   follow |-> ForgetFollow(procs[p].retry, cached),
                   replaced |-> ""])

\* ForgetPwd, third step (lines 252-253), taken when nothing usable was read:
\* fresh is what utils.CreateRandomCode(6) returns, and it is stored.  The
\* history notes the expired code it replaces when the request arrived after
\* the TTL of the code of its email had run out.
ForgetPwdSet(p, fresh) ==
  /\ procs[p].pc = "fp-set"
  /\ UNCHANGED <<store, captchaStore, captchaIssued, submitted, links>>
  /\ UNCHANGED response
  /\ cache' = IssueCode(cache, procs[p].form.email, fresh)
  /\ Goto(p, [pc |-> "fp-send", form |-> procs[p].form,
              username |-> procs[p].username, verifyCode |-> fresh,
              follow |-> "",
              replaced |-> IF procs[p].late
                           THEN ExpiredCode(cache, procs[p].form.email) ELSE ""])

\* ForgetPwd, last step (lines 255-282): the message is composed and handed to
\* the mailer; sendOk is whether d.DialAndSend returns without error, err the
\* error it returns otherwise
ForgetPwdSend(p, sendOk, err) ==
  LET form == procs[p].form
      msg == [to |-> form.email, username |-> procs[p].username,
              code |-> procs[p].verifyCode, delivered |-> sendOk]
  IN /\ procs[p].pc = "fp-send"
     /\ UNCHANGED <<store, captchaStore, captchaIssued, cache, submitted, links>>
     /\ replaced' = procs[p].replaced
     /\ follow' = procs[p].follow
     /\ Finish(p)
     /\ IF ~sendOk
        THEN ServerFail("ForgetPwd", form, MsgSendFailed, msg, "send", err)
        ELSE Reply("ForgetPwd", form, Success, MsgSendOk, NoData, msg)

\* ------------------------------------------------------------------ ResetPwd
\* only the presence of a cached code is checked
CodeMismatchOnlyIfMissing(cached, form) == cached = ""

\* the comparison is skipped when nothing is cached
CodeMismatchOnlyIfCached(cached, form) == cached # "" /\ cached # form.verifyCode

\* the comparison is inverted: the cached code itself is refused
CodeMismatchInverted(cached, form) == cached = form.verifyCode

\* ResetPwd: verifyCode != resetPwdForm.VerifyCode
CodeMismatch(cached, form) == cached # form.verifyCode

\* history: this successful ResetPwd uses the code of the request answered
\* before it, a ForgetPwd whose delivery failed or a ResetPwd that succeeded
ResetFollow(form) ==
  IF result.msg = MsgSendFailed /\ mail.to = form.email /\ mail.code = form.verifyCode
  THEN "reset-after-send-failure"
  ELSE IF /\ result.msg = MsgResetOk
          /\ lastReq.email = form.email
          /\ lastReq.verifyCode = form.verifyCode
  THEN "reset-replay"
  ELSE ""

\* ResetPwd, first step (lines 294-312): the form is bound, the cached code
\* read and compared with the submitted one
ResetPwdGet(p, form) ==
  /\ Free(p)
  /\ UNCHANGED <<store, captchaStore, captchaIssued, cache, submitted, links>>
  /\ IF ~BindOk(<<form.email, form.verifyCode, form.pwd>>)
     THEN /\ Reply("ResetPwd", form, RequestError, MsgFormError, NoData, NoMail)
          /\ Plain
          /\ UNCHANGED procs
     ELSE IF CodeMismatch(CacheGet(cache, form.email), form)
     THEN /\ Reply("ResetPwd", form, RequestError, MsgCodeInvalid, NoData, NoMail)
          /\ Plain
          /\ UNCHANGED procs
     ELSE /\ Goto(p, [pc |-> "rp-update", form |-> form,
                      follow |-> ResetFollow(form)])
          /\ UNCHANGED response

\* ResetPwd, second step (lines 313-328): user.UpdatePwd(); updOk is whether it
\* returns without error, err the error it returns otherwise
ResetPwdUpdate(p, updOk, err) ==
  /\ procs[p].pc = "rp-update"
  /\ UNCHANGED <<sysSettings, sysItems, captchaStore, captchaIssued, cache,
                 submitted, links>>
  /\ replaced' = ""
  /\ Finish(p)
  /\ IF ~updOk
     THEN /\ ServerFail("ResetPwd", procs[p].form, MsgServerError, NoMail, "update", err)
          /\ follow' = ""
          /\ UNCHANGED users
     ELSE /\ users' = UserUpdatePwd(users, procs[p].form.email, HashPwd(procs[p].form.pwd))
          /\ follow' = procs[p].follow
          /\ Reply("ResetPwd", procs[p].form, Success, MsgResetOk, NoData, NoMail)

\* TickMinutes minutes pass: every live cache entry ages; an entry whose TTL
\* is used up has expired and Get no longer returns it
Tick ==
  /\ \E e \in Emails : cache[e].ttl > 0
  /\ cache' = [e \in Emails |->
                 IF cache[e].ttl > TickMinutes
                 THEN [cache[e] EXCEPT !.ttl = @ - TickMinutes]
                 ELSE [cache[e] EXCEPT !.ttl = 0]]
  /\ UNCHANGED <<store, captchaStore, captchaIssued, submitted, links, procs>>
  /\ UNCHANGED response

\* ---------------------------------------------------------------------- links
\* (src/model/link.go)
LinkNames == {"n1", "n2"}
Digits == <<"1", "2", "3", "4", "5", "6", "7", "8", "9">>
\* the characters of an ids string
IdChars == {Digits[i] : i \in 1..(MaxLinks + 1)} \cup {","}

\* strings of IdChars with at most n characters, as sequences of characters
RECURSIVE StringsUpTo(_)
StringsUpTo(n) ==
  IF n = 0 THEN {<<>>}
  ELSE LET shorter == StringsUpTo(n - 1)
       IN shorter \cup {Append(t, c) : t \in shorter, c \in IdChars}

\* strings.Split(ids, ","): the pieces between the separators, in order
RECURSIVE Split(_, _)
Split(str, sep) ==
  IF \A i \in 1..Len(str) : str[i] # sep
  THEN <<str>>
  ELSE LET k == CHOOSE i \in 1..Len(str) :
                  str[i] = sep /\ \A j \in 1..(i-1) : str[j] # sep
       IN <<SubSeq(str, 1, k - 1)>> \o Split(SubSeq(str, k + 1, Len(str)), sep)

\* the value of a digit character
DigitVal(c) == CHOOSE d \in 1..9 : Digits[d] = c

\* the number the database compares the id column with when it is handed the
\* string tok: its decimal value, 0 for the empty string
RECURSIVE ParseId(_)
ParseId(tok) ==
  IF tok = <<>> THEN 0
  ELSE 10 * ParseId(SubSeq(tok, 1, Len(tok) - 1)) + DigitVal(tok[Len(tok)])

\* the ids an id list selects
IdsOf(idList) == {ParseId(idList[i]) : i \in 1..Len(idList)}

\* a delete without Unscoped(): the selected live rows get the deletion marker
GormSoftDelete(rows, ids) ==
  {IF r.id \in ids /\ r.deletedAt = 0 THEN [r EXCEPT !.deletedAt = 1] ELSE r : r \in rows}

\* Where(...).Unscoped().Delete(&Link{}): the selected rows leave the table,
\* with or without a deletion marker
GormUnscopedDelete(rows, ids) == {r \in rows : r.id \notin ids}

\* Model(&Link{}).Updates(&link): the columns of the non-zero fields of link
\* are written, to the live row with link.ID when that is non-zero and to every
\* live row when it is zero.  name stands for the plain columns, deletedAt for
\* the deletion marker of gorm.Model.
GormUpdates(rows, link) ==
  {IF r.deletedAt = 0 /\ (link.id = 0 \/ r.id = link.id)
   THEN [r EXCEPT !.name = IF link.name # "" THEN link.name ELSE @,
                  !.deletedAt = IF link.deletedAt # 0 THEN link.deletedAt ELSE @]
   ELSE r : r \in rows}

\* Find(&list) of Link.GetAll: the rows without a deletion marker
LinkGetAll(rows) == {r \in rows : r.deletedAt = 0}

\* the links an Update may be handed
LinkInputs == [id : 0..MaxLinks, name : LinkNames \cup {""}, deletedAt : {0, 1}]

\* history of a link operation in lastOp, lastReq and flip; hit is the set of
\* selected ids that were in the table
LinkDone(op, ids) ==
  /\ lastOp' = op
  /\ lastReq' = [hit |-> {r.id : r \in links.rows} \cap ids]
  /\ flip' = ~flip
  /\ UNCHANGED <<store, captchaStore, captchaIssued, cache, mail, result, submitted,
                 replaced, logged, failed, follow, procs>>

\* Link.Create
LinkCreate(name) ==
  /\ links.seq < MaxLinks
  /\ links' = [rows |-> links.rows \cup
                        {[id |-> links.seq + 1, name |-> name, deletedAt |-> 0]},
               seq |-> links.seq + 1]
  /\ LinkDone("Link.Create", {})

\* Link.Update
LinkUpdate(link) ==
  /\ links' = [links EXCEPT !.rows = GormUpdates(links.rows, link)]
  /\ LinkDone("Link.Update",
              {r.id : r \in {x \in links.rows : link.id = 0 \/ x.id = link.id}})

\* Link.DeleteById(id)
LinkDeleteById(id) ==
  /\ links' = [links EXCEPT !.rows = GormUnscopedDelete(links.rows, {ParseId(id)})]
  /\ LinkDone("Link.DeleteById", {ParseId(id)})

\* Link.MultiDelByIds(ids)
LinkMultiDelByIds(ids) ==
  LET idList == Split(ids, ",")
  IN /\ links' = [links EXCEPT !.rows = GormUnscopedDelete(links.rows, IdsOf(idList))]
     /\ LinkDone("Link.MultiDelByIds", IdsOf(idList))

NextLink ==
  \/ \E name \in LinkNames : LinkCreate(name)
  \/ \E link \in LinkInputs : LinkUpdate(link)
  \/ \E id \in {<<Digits[i]>> : i \in 1..(MaxLinks + 1)} : LinkDeleteById(id)
  \/ \E ids \in StringsUpTo(MaxIdsLen) : LinkMultiDelByIds(ids)

SpecLink == Init /\ [][NextLink]_vars

\* ------------------------------------------------------------ specifications
\* every specification serves its requests concurrently, step by step

\* registration
RegRegisterForms == {f \in RegisterForms : f.pwd = "pw1" /\ f.email = "a@x.com"}

NextReg ==
  \/ \E p \in Procs, form \in RegRegisterForms, lookupOk \in BOOLEAN :
       RegisterLookup(p, form, lookupOk)
  \/ \E p \in Procs, ok \in BOOLEAN : RegisterCreate(p, ok, "e1")
  \/ \E p \in Procs, ok \in BOOLEAN : RegisterGroup(p, ok, "e1")
  \/ \E p \in Procs, ok \in BOOLEAN : RegisterUpsert(p, ok, "e1")

SpecReg == Init /\ [][NextReg]_vars

\* the Register forms of every specification but SpecReg: the one account, and
\* the form that fails to bind
AllRegisterForms ==
  {f \in RegisterForms : f.username \in {"alice", ""} /\ f.pwd = "pw1" /\ f.email = "a@x.com"}

\* registration, captcha and login

NextLogin ==
  \/ \E p \in Procs, form \in AllRegisterForms : RegisterLookup(p, form, TRUE)
  \/ \E p \in Procs : RegisterCreate(p, TRUE, "e1")
  \/ \E p \in Procs : RegisterGroup(p, TRUE, "e1")
  \/ \E p \in Procs : RegisterUpsert(p, TRUE, "e1")
  \/ \E genOk \in BOOLEAN : CreateCaptcha("k7", genOk)
  \/ \E id \in CaptchaIds : CaptchaExpire(id)
  \/ \E p \in Procs, form \in LoginForms : LoginCaptcha(p, form)
  \/ \E p \in Procs, lookupOk \in BOOLEAN, signOk \in BOOLEAN :
       LoginLookup(p, lookupOk, signOk, "e1", 0, 0)

SpecLogin == Init /\ [][NextLogin]_vars

\* login with the clock: the second reading of a Login is the first or the
\* second after it
TokenLoginForms ==
  {f \in LoginForms : f.username \in {"alice", ""} /\ f.pwd = "pw1" /\ f.captchaVal = "k7"}

NextToken ==
  \/ \E p \in Procs, form \in AllRegisterForms, lookupOk \in BOOLEAN :
       RegisterLookup(p, form, lookupOk)
  \/ \E p \in Procs, ok \in BOOLEAN : RegisterCreate(p, ok, "e1")
  \/ \E p \in Procs, ok \in BOOLEAN : RegisterGroup(p, ok, "e1")
  \/ \E p \in Procs, ok \in BOOLEAN : RegisterUpsert(p, ok, "e1")
  \/ \E genOk \in BOOLEAN : CreateCaptcha("k7", genOk)
  \/ \E p \in Procs, form \in TokenLoginForms : LoginCaptcha(p, form)
  \/ \E p \in Procs, lookupOk \in BOOLEAN, signOk \in BOOLEAN, first \in 0..MaxClock :
       \E second \in {first, first + 1} :
         LoginLookup(p, lookupOk, signOk, "e1", first, second)

SpecToken == Init /\ [][NextToken]_vars

\* registration of one account and the requests for a verification code
NextForget ==
  \/ \E p \in Procs, form \in AllRegisterForms, lookupOk \in BOOLEAN :
       RegisterLookup(p, form, lookupOk)
  \/ \E p \in Procs, ok \in BOOLEAN : RegisterCreate(p, ok, "e1")
  \/ \E p \in Procs, ok \in BOOLEAN : RegisterGroup(p, ok, "e1")
  \/ \E p \in Procs, ok \in BOOLEAN : RegisterUpsert(p, ok, "e1")
  \/ \E p \in Procs, form \in ForgetPwdForms, lookupOk \in BOOLEAN :
       ForgetPwdLookup(p, form, lookupOk)
  \/ \E p \in Procs : ForgetPwdGet(p)
  \/ \E p \in Procs, fresh \in Codes : ForgetPwdSet(p, fresh)
  \/ \E p \in Procs, sendOk \in BOOLEAN : ForgetPwdSend(p, sendOk, "e1")
  \/ Tick

SpecForget == Init /\ [][NextForget]_vars

\* registration of one account and the forgotten-password flow
PwdForgetPwdForms == {f \in ForgetPwdForms : f.email \in {"a@x.com", ""}}
PwdResetPwdForms == {f \in ResetPwdForms : f.email = "a@x.com"}

NextPwd ==
  \/ \E p \in Procs, form \in AllRegisterForms : RegisterLookup(p, form, TRUE)
  \/ \E p \in Procs : RegisterCreate(p, TRUE, "e1")
  \/ \E p \in Procs : RegisterGroup(p, TRUE, "e1")
  \/ \E p \in Procs : RegisterUpsert(p, TRUE, "e1")
  \/ \E p \in Procs, form \in PwdForgetPwdForms, lookupOk \in BOOLEAN :
       ForgetPwdLookup(p, form, lookupOk)
  \/ \E p \in Procs : ForgetPwdGet(p)
  \/ \E p \in Procs, fresh \in Codes : ForgetPwdSet(p, fresh)
  \/ \E p \in Procs, sendOk \in BOOLEAN : ForgetPwdSend(p, sendOk, "e1")
  \/ \E p \in Procs, form \in PwdResetPwdForms : ResetPwdGet(p, form)
  \/ \E p \in Procs, updOk \in BOOLEAN : ResetPwdUpdate(p, updOk, "e1")
  \/ Tick

SpecPwd == Init /\ [][NextPwd]_vars

\* every auth endpoint, every failure of a call and both error texts; of each
\* form the one that fails to bind and one that binds
AllLoginForms ==
  {f \in LoginForms : /\ f.username \in {"alice", ""} /\ f.pwd = "pw1"
                      /\ f.captchaId = 1 /\ f.captchaVal = "k7"}
AllForgetPwdForms == {f \in ForgetPwdForms : f.email \in {"a@x.com", ""}}
AllResetPwdForms ==
  {f \in ResetPwdForms : /\ f.email = "a@x.com" /\ f.pwd = "pw2"
                         /\ f.verifyCode \in {"AAAAAA", ""}}

NextAll ==
  \/ \E p \in Procs, form \in AllRegisterForms : RegisterLookup(p, form, TRUE)
  \/ \E p \in Procs, ok \in BOOLEAN, err \in Errors : RegisterCreate(p, ok, err)
  \/ \E p \in Procs, ok \in BOOLEAN, err \in Errors : RegisterGroup(p, ok, err)
  \/ \E p \in Procs, ok \in BOOLEAN, err \in Errors : RegisterUpsert(p, ok, err)
  \/ \E genOk \in BOOLEAN : CreateCaptcha("k7", genOk)
  \/ \E p \in Procs, form \in AllLoginForms : LoginCaptcha(p, form)
  \/ \E p \in Procs, lookupOk \in BOOLEAN, signOk \in BOOLEAN, err \in Errors :
       LoginLookup(p, lookupOk, signOk, err, 0, 0)
  \/ \E p \in Procs, form \in AllForgetPwdForms, lookupOk \in BOOLEAN :
       ForgetPwdLookup(p, form, lookupOk)
  \/ \E p \in Procs : ForgetPwdGet(p)
  \/ \E p \in Procs : ForgetPwdSet(p, "AAAAAA")
  \/ \E p \in Procs, sendOk \in BOOLEAN, err \in Errors : ForgetPwdSend(p, sendOk, err)
  \/ \E p \in Procs, form \in AllResetPwdForms : ResetPwdGet(p, form)
  \/ \E p \in Procs, updOk \in BOOLEAN, err \in Errors : ResetPwdUpdate(p, updOk, err)

SpecAll == Init /\ [][NextAll]_vars

\* every auth endpoint and the passing of time, the calls to the store, the
\* signer and the mailer returning without error
NextCache ==
  \/ \E p \in Procs, form \in AllRegisterForms : RegisterLookup(p, form, TRUE)
  \/ \E p \in Procs : RegisterCreate(p, TRUE, "e1")
  \/ \E p \in Procs : RegisterGroup(p, TRUE, "e1")
  \/ \E p \in Procs : RegisterUpsert(p, TRUE, "e1")
  \/ CreateCaptcha("k7", TRUE)
  \/ \E p \in Procs, form \in AllLoginForms : LoginCaptcha(p, form)
  \/ \E p \in Procs : LoginLookup(p, TRUE, TRUE, "e1", 0, 0)
  \/ \E p \in Procs, form \in ForgetPwdForms, lookupOk \in BOOLEAN :
       ForgetPwdLookup(p, form, lookupOk)
  \/ \E p \in Procs : ForgetPwdGet(p)
  \/ \E p \in Procs : ForgetPwdSet(p, "AAAAAA")
  \/ \E p \in Procs : ForgetPwdSend(p, TRUE, "e1")
  \/ \E p \in Procs, form \in AllResetPwdForms : ResetPwdGet(p, form)
  \/ \E p \in Procs : ResetPwdUpdate(p, TRUE, "e1")
  \/ Tick

SpecCache == Init /\ [][NextCache]_vars

\* ------------------------------------------------------------------- claims
\* the step just taken answered a request of handler op
Handled(op) == lastOp' = op /\ flip' # flip

\* the step just taken answered a request of handler op in its first step
Rejected(op) == Handled(op) /\ procs' = procs

\* the step just taken was the first step of a request, which process p
\* carries on to the call at pc
Passed(p, pc) == procs[p].pc = "idle" /\ procs'[p].pc = pc

\* the step just taken was the call at pc of the request of process p
Stepped(p, pc) == procs[p].pc = pc /\ procs'[p] # procs[p]

\* the step just taken was the call at pc of the request of process p and
\* answered it
Answered(p, pc) == procs[p].pc = pc /\ procs'[p].pc = "idle"

UserExists(name) == \E i \in 1..Len(users) : users[i].username = name
EmailRegistered(email) == \E i \in 1..Len(users) : users[i].email = email

\* the captcha store holds the challenge id and its answer is val
CaptchaValid(id, val) == id \in CaptchaIds /\ captchaStore[id] = val /\ val # ""

\* C1 as stated: a Register request whose username already belongs to a stored
\* user when its username is checked is answered there with a request-error and
\* leaves users, settings groups and settings items as they were; it never goes
\* on to user.Create().
C1_DuplicateUsernameRejected ==
  [][/\ \A p \in Procs :
          Passed(p, "reg-create") => ~UserExists(procs'[p].form.username)
     /\ (Rejected("Register") /\ UserExists(lastReq'.username))
          => (result'.code = RequestError /\ UNCHANGED store)]_vars

\* C2: a Login request whose captcha id is unknown, expired or consumed, or
\* whose answer does not match, is answered with a request-error that carries
\* no token, whatever the username and the password are; it never reaches the
\* lookup of the user.
C2_BadCaptchaRejected ==
  [][/\ \A p \in Procs :
          Passed(p, "login-lookup")
            => CaptchaValid(procs'[p].form.captchaId, procs'[p].form.captchaVal)
     /\ (Rejected("Login") /\ ~CaptchaValid(lastReq'.captchaId, lastReq'.captchaVal))
          => (result'.code = RequestError /\ result'.data = NoData)]_vars

\* the captcha was wrong although the username exists and the password is right
C2_Witness ==
  /\ lastOp = "Login"
  /\ result.msg = MsgCaptchaWrong
  /\ \E i \in 1..Len(users) : /\ users[i].username = lastReq.username
                              /\ users[i].pwd = HashPwd(lastReq.pwd)

\* C3: a Login request that passed the captcha check and names an existing
\* username whose stored hash its password does not verify against is answered
\* with a request-error and no token.
C3_WrongPasswordRejected ==
  [][\A p \in Procs :
       (/\ Answered(p, "login-lookup")
        /\ UserExists(procs[p].form.username)
        /\ \A i \in 1..Len(users) :
             users[i].username = procs[p].form.username
               => ~VerifyPwd(users[i].pwd, procs[p].form.pwd))
         => (/\ Handled("Login")
             /\ lastReq' = procs[p].form
             /\ result'.code = RequestError
             /\ result'.data = NoData)]_vars

C3_Witness ==
  /\ lastOp = "Login"
  /\ result = [code |-> RequestError, msg |-> MsgPwdWrong, data |-> NoData]
  /\ UserExists(lastReq.username)

\* C4: a captcha id that has reached the verification of a Login request never
\* passes the verification of a later Login request.
C4_CaptchaSingleUse ==
  [][/\ \A p \in Procs :
          Passed(p, "login-lookup") => submitted[procs'[p].form.captchaId] = 0
     /\ (/\ Rejected("Login")
         /\ BindOk(<<lastReq'.username, lastReq'.pwd, lastReq'.captchaVal>>)
         /\ submitted[lastReq'.captchaId] >= 1)
          => (result'.code = RequestError /\ result'.msg = MsgCaptchaWrong)]_vars

\* an issued id has passed the verification of a Login request, which is on
\* its way to the lookup of the user, and a later Login request with that id
\* and the very answer that passed has been refused
C4_Witness ==
  /\ lastOp = "Login"
  /\ result = [code |-> RequestError, msg |-> MsgCaptchaWrong, data |-> NoData]
  /\ lastReq.captchaId \in 1..captchaIssued
  /\ submitted[lastReq.captchaId] = 2
  /\ captchaStore[lastReq.captchaId] = ""
  /\ \E p \in Procs : /\ procs[p].pc = "login-lookup"
                       /\ procs[p].form.captchaId = lastReq.captchaId
                       /\ procs[p].form.captchaVal = lastReq.captchaVal

\* C5: a ForgetPwd request that finds an unexpired code cached for its email
\* issues and stores none: it leaves the entry, code and TTL, untouched and
\* sends the code it found, so two requests made one after the other within
\* the TTL send the same code.
C5_ResendSameCode ==
  [][\A p \in Procs :
       /\ (Stepped(p, "fp-get") /\ CacheGet(cache, procs[p].form.email) # "")
            => (/\ procs'[p].pc = "fp-send"
                /\ procs'[p].verifyCode = CacheGet(cache, procs[p].form.email)
                /\ cache' = cache)
       /\ Answered(p, "fp-send")
            => (/\ Handled("ForgetPwd")
                /\ mail'.to = procs[p].form.email
                /\ mail'.code = procs[p].verifyCode
                /\ cache' = cache)]_vars

\* a request has sent the code that an earlier request stored some minutes
\* before, and the entry is as that request left it
C5_Witness ==
  /\ lastOp = "ForgetPwd"
  /\ follow \in {"resend", "resend-after-send-failure"}
  /\ mail.code # ""
  /\ cache[mail.to].code = mail.code
  /\ cache[mail.to].ttl > 0
  /\ cache[mail.to].ttl < CodeTTL

\* the email is registered and the code issued for it earlier has expired
CodeExpired(email) ==
  EmailRegistered(email) /\ cache[email].code # "" /\ cache[email].ttl = 0

\* C6 as stated: a ForgetPwd request made after the TTL of the previous code
\* has elapsed issues a code different from the previous one.
C6_DifferentCodeAfterTTL ==
  [][\A p \in Procs :
       (Stepped(p, "fp-set") /\ CodeExpired(procs[p].form.email))
         => procs'[p].verifyCode # cache[procs[p].form.email].code]_vars

\* C6 amended: a ForgetPwd request that finds the code of its email expired
\* issues a newly generated 6-character code, stores it with the full 15-minute
\* TTL and sends it; the new code need not differ from the old one.
C6_FreshCodeAfterTTL ==
  [][\A p \in Procs :
       /\ (Stepped(p, "fp-get") /\ CodeExpired(procs[p].form.email))
            => procs'[p].pc = "fp-set"
       /\ (Stepped(p, "fp-set") /\ CodeExpired(procs[p].form.email))
            => (/\ procs'[p].pc = "fp-send"
                /\ procs'[p].verifyCode \in Codes
                /\ Len(procs'[p].verifyCode) = CodeLen
                /\ cache'[procs[p].form.email] =
                     [code |-> procs'[p].verifyCode, ttl |-> CodeTTL])
       /\ (Answered(p, "fp-send") /\ procs[p].replaced # "")
            => mail'.code = procs[p].verifyCode]_vars

\* a request that arrived after the TTL of the code of its email had run out
\* has issued a code in place of that expired one, stored it with the full TTL
\* and delivered it
C6_Witness ==
  /\ lastOp = "ForgetPwd"
  /\ result.code = Success
  /\ replaced # ""
  /\ mail.delivered
  /\ mail.code # ""
  /\ Len(mail.code) = CodeLen
  /\ cache[mail.to] = [code |-> mail.code, ttl |-> CodeTTL]

\* C7: a ResetPwd request whose code differs from the code cached for the email
\* is answered with a request-error and changes neither a user record nor the
\* cache; it never reaches user.UpdatePwd().
C7_WrongCodeRejected ==
  [][/\ \A p \in Procs :
          (Passed(p, "rp-update") /\ CacheGet(cache, procs'[p].form.email) # "")
            => procs'[p].form.verifyCode = CacheGet(cache, procs'[p].form.email)
     /\ (/\ Rejected("ResetPwd")
         /\ CacheGet(cache, lastReq'.email) # ""
         /\ lastReq'.verifyCode # CacheGet(cache, lastReq'.email))
          => (result'.code = RequestError /\ users' = users /\ cache' = cache)]_vars

C7_Witness ==
  /\ lastOp = "ResetPwd"
  /\ CacheGet(cache, lastReq.email) # ""
  /\ lastReq.verifyCode # ""
  /\ lastReq.verifyCode # CacheGet(cache, lastReq.email)
  /\ result = [code |-> RequestError, msg |-> MsgCodeInvalid, data |-> NoData]

\* C8: a ResetPwd request for an email that has no cached code (never issued,
\* or expired) when the request reads the cache is answered with a
\* request-error whatever code it submits, and updates no user record.
C8_NoCodeRejected ==
  [][/\ \A p \in Procs :
          Passed(p, "rp-update") => CacheGet(cache, procs'[p].form.email) # ""
     /\ (Rejected("ResetPwd") /\ CacheGet(cache, lastReq'.email) = "")
          => (result'.code = RequestError /\ users' = users)]_vars

\* the code of an expired entry was submitted for a registered email
C8_Witness ==
  /\ lastOp = "ResetPwd"
  /\ EmailRegistered(lastReq.email)
  /\ cache[lastReq.email].ttl = 0
  /\ cache[lastReq.email].code = lastReq.verifyCode
  /\ lastReq.verifyCode # ""
  /\ result.code = RequestError

\* C9: a ForgetPwd request whose email belongs to no stored user is answered
\* with a request-error, composes no mail and leaves the cache untouched; it
\* never reaches the cache.
C9_UnknownEmailRejected ==
  [][/\ \A p \in Procs :
          Passed(p, "fp-get") => EmailRegistered(procs'[p].form.email)
     /\ (Rejected("ForgetPwd") /\ ~EmailRegistered(lastReq'.email))
          => (result'.code = RequestError /\ mail' = NoMail /\ cache' = cache)]_vars

C9_Witness ==
  /\ lastOp = "ForgetPwd"
  /\ users # <<>>
  /\ lastReq.email # ""
  /\ ~EmailRegistered(lastReq.email)
  /\ result = [code |-> RequestError, msg |-> MsgNoSuchEmail, data |-> NoData]
  /\ mail = NoMail

\* C10: the store holds at most one settings group named "site settings".
C10_OneSiteSettingsGroup ==
  Cardinality({i \in 1..Len(sysSettings) : sysSettings[i].name = "site settings"}) <= 1

\* the step just taken was a delete of links
LinkDeleted == Handled("Link.DeleteById") \/ Handled("Link.MultiDelByIds")

\* C11 as stated: after Link.DeleteById or Link.MultiDelByIds the targeted
\* records are still in the table and carry a deletion marker.
C11_LinkSoftDelete ==
  [][LinkDeleted
       => \A id \in lastReq'.hit :
            \E r \in links'.rows : r.id = id /\ r.deletedAt # 0]_vars

\* C11 amended: Link.DeleteById and Link.MultiDelByIds delete for good: the
\* targeted records leave the table whether or not they carry a deletion
\* marker, every other record stays as it was, and the delete sets no marker.
C11_LinkHardDelete ==
  [][LinkDeleted
       => (/\ \A r \in links'.rows : r.id \notin lastReq'.hit
           /\ \A r \in links.rows : r.id \notin lastReq'.hit => r \in links'.rows
           /\ links'.rows \subseteq links.rows)]_vars

\* one MultiDelByIds call removed the two records that were ever created
C11_Witness ==
  /\ lastOp = "Link.MultiDelByIds"
  /\ Cardinality(lastReq.hit) = 2
  /\ links.rows = {}
  /\ links.seq = 2

\* the message an endpoint returns with a server-error
FixedServerMsg(op) == IF op = "ForgetPwd" THEN MsgSendFailed ELSE MsgServerError

\* C12: the envelope of a server-error is fixed by the endpoint alone (the
\* server-error code, the endpoint's fixed message, no data), so two runs that
\* differ only in the internal error return the same envelope; the text of the
\* error appears in the log and nowhere in the response.
C12_ServerErrorHidesDetail ==
  [][(flip' # flip /\ result'.code = ServerError)
       => (/\ result' = [code |-> ServerError, msg |-> FixedServerMsg(lastOp'),
                         data |-> NoData]
           /\ result'.msg \notin Errors
           /\ (lastOp' # "CreateCaptcha" => logged' \in Errors))]_vars

\* the second error text was logged by a Register that failed at the group
C12_Witness ==
  /\ lastOp = "Register"
  /\ failed = "group"
  /\ logged = "e2"
  /\ result = [code |-> ServerError, msg |-> MsgServerError, data |-> NoData]

\* C13 as stated: a Register whose sysSetting.Create() or MultiCreateOrUpdate
\* fails answers with a server-error and the user it created stays stored;
\* stored users are never removed; a later Register for that username is
\* rejected with a request-error and changes nothing; and settings are only
\* written by a request that has itself just created its user, so the missing
\* settings are never made up.
C13_RegisterNotAtomic ==
  [][/\ (Handled("Register") /\ failed' \in {"group", "items"})
          => (/\ result'.code = ServerError
              /\ users' = users
              /\ UserExists(lastReq'.username))
     /\ Len(users') >= Len(users)
     /\ \A i \in 1..Len(users) : users'[i].username = users[i].username
     /\ \A p \in Procs :
          Passed(p, "reg-create") => ~UserExists(procs'[p].form.username)
     /\ (Rejected("Register") /\ UserExists(lastReq'.username))
          => (result'.code = RequestError /\ UNCHANGED store)
     /\ sysSettings' # sysSettings
          => \E p \in Procs : procs[p].pc = "reg-group" /\ procs'[p].pc = "reg-items"
     /\ sysItems' # sysItems
          => \E p \in Procs : Answered(p, "reg-items")]_vars

\* the store holds a user with the username and the email of the form
UserStored(form) ==
  \E i \in 1..Len(users) : /\ users[i].username = form.username
                           /\ users[i].email = form.email
                           /\ users[i].pwd = HashPwd(form.pwd)

\* C14: the store is written in the order user, group, items, each by the
\* request that performed the write before; a Register answered with success
\* has stored its user, its settings group and the items type_name, site_name
\* and site_url under that group's id; a Register whose call fails is answered
\* by that very step, which writes nothing, and performs no later step.
C14_RegisterAllOrFirstFailure ==
  [][/\ users' # users
          => \E p \in Procs : procs[p].pc = "reg-create" /\ procs'[p].pc = "reg-group"
     /\ sysSettings' # sysSettings
          => \E p \in Procs : procs[p].pc = "reg-group" /\ procs'[p].pc = "reg-items"
     /\ sysItems' # sysItems
          => \E p \in Procs : Answered(p, "reg-items") /\ result'.code = Success
     /\ Handled("Register")
          => (/\ result'.code = Success
                   => \E p \in Procs :
                        /\ Answered(p, "reg-items")
                        /\ lastReq' = procs[p].form
                        /\ failed' = ""
                        /\ UserStored(procs[p].form)
                        /\ procs[p].sysId \in 1..Len(sysSettings')
                        /\ sysSettings'[procs[p].sysId] =
                             [id |-> procs[p].sysId, name |-> "site settings"]
                        /\ \A kv \in {<<"type_name", "site settings">>,
                                       <<"site_name", lastReq'.siteName>>,
                                       <<"site_url", lastReq'.siteUrl>>} :
                              [sysId |-> procs[p].sysId, key |-> kv[1], val |-> kv[2]]
                                \in sysItems'
              /\ failed' = "user"
                   => (UNCHANGED store /\ \E p \in Procs : Answered(p, "reg-create"))
              /\ failed' = "group"
                   => (UNCHANGED store /\ \E p \in Procs : Answered(p, "reg-group"))
              /\ failed' = "items"
                   => (UNCHANGED store /\ \E p \in Procs : Answered(p, "reg-items"))
              /\ result'.code # Success
                   => (failed' \in {"user", "group", "items"} \/ Rejected("Register")))]_vars

\* a Register succeeded after an earlier one had left a user without settings
C14_Witness ==
  /\ lastOp = "Register"
  /\ result.code = Success
  /\ Len(users) = 2
  /\ Len(sysSettings) = 1
  /\ [sysId |-> 1, key |-> "site_url", val |-> lastReq.siteUrl] \in sysItems

\* the password stored for every user with that email is the hash of pwd
PwdIs(us, email, pwd) ==
  \A i \in 1..Len(us) : us[i].email = email => us[i].pwd = HashPwd(pwd)

\* C15: no step of a ResetPwd writes the cache, so the code a successful
\* ResetPwd used stays the live code of its email until its TTL runs out; and
\* a ResetPwd that submits the live code of its email is not refused: unless
\* the update itself fails it succeeds and stores the hash of its password.
C15_ResetReplay ==
  [][/\ (\/ Rejected("ResetPwd")
         \/ \E p \in Procs : Passed(p, "rp-update") \/ Stepped(p, "rp-update"))
          => cache' = cache
     /\ (/\ Rejected("ResetPwd")
         /\ BindOk(<<lastReq'.email, lastReq'.verifyCode, lastReq'.pwd>>))
          => lastReq'.verifyCode # CacheGet(cache, lastReq'.email)
     /\ \A p \in Procs :
          Stepped(p, "rp-update")
            => (/\ Handled("ResetPwd")
                /\ lastReq' = procs[p].form
                /\ \/ failed' = "update"
                   \/ /\ result' = [code |-> Success, msg |-> MsgResetOk,
                                    data |-> NoData]
                      /\ PwdIs(users', lastReq'.email, lastReq'.pwd))]_vars

\* a ResetPwd that arrived after a ResetPwd had succeeded with the same email
\* and code has succeeded as well and has stored its own password
C15_Witness ==
  /\ lastOp = "ResetPwd"
  /\ follow = "reset-replay"
  /\ result = [code |-> Success, msg |-> MsgResetOk, data |-> NoData]
  /\ EmailRegistered(lastReq.email)
  /\ PwdIs(users, lastReq.email, lastReq.pwd)

\* C16 as stated: no two stored users have the same username, and a Register
\* answered with success leaves exactly one stored user with its username.
C16_UniqueUsernames ==
  /\ [](\A i, j \in 1..Len(users) : users[i].username = users[j].username => i = j)
  /\ [][(Handled("Register") /\ result'.code = Success)
          => Cardinality({i \in 1..Len(users') :
                            users'[i].username = lastReq'.username}) = 1]_vars

\* the stored user a Login request names
StoredUser(form) == GetByUsername(users, form.username)

\* C17 as stated: the token of a successful Login carries the username and the
\* avatar of the stored user, the response carries that user's id, username and
\* avatar, and the token's expires-at is its issued-at plus TokenExpireTime.
C17_TokenFromStoredUser ==
  [][(Handled("Login") /\ result'.code = Success)
       => LET u == StoredUser(lastReq')
              d == result'.data
          IN /\ u.username # ""
             /\ d.token.username = u.username
             /\ d.token.userImg = u.userImg
             /\ d.userId = u.id
             /\ d.username = u.username
             /\ d.userImg = u.userImg
             /\ d.token.expiresAt = d.token.issuedAt + TokenExpireTime]_vars

\* no ForgetPwd request is in flight
NoForgetPwdInFlight == \A p \in Procs : procs[p].pc \notin {"fp-get", "fp-set", "fp-send"}

\* C18 as stated: when the last of the ForgetPwd requests in flight finishes,
\* the code it has emailed is the code the cache holds for its email.
C18_MailedCodeIsCached ==
  [][(Handled("ForgetPwd") /\ mail'.delivered /\ NoForgetPwdInFlight')
       => cache'[mail'.to].code = mail'.code]_vars

\* the last answer is that of a ForgetPwd whose delivery failed, and the code
\* of the undelivered mail is the live code of its email
SendFailedCodeLive ==
  /\ lastOp = "ForgetPwd"
  /\ result = [code |-> ServerError, msg |-> MsgSendFailed, data |-> NoData]
  /\ CacheGet(cache, mail.to) = mail.code

\* C19: a ForgetPwd whose delivery fails answers with a server-error and leaves
\* the cache as it is, the code it stored being the code of the undelivered
\* mail; while that code is the live code of the email, a ResetPwd with it is
\* not refused and a further ForgetPwd for the email finds it, issues none and
\* goes on to send that same code.
C19_SendFailureKeepsCode ==
  [][/\ \A p \in Procs :
          /\ (Answered(p, "fp-send") /\ failed' = "send")
               => (/\ result' = [code |-> ServerError, msg |-> MsgSendFailed,
                                 data |-> NoData]
                   /\ ~mail'.delivered
                   /\ mail'.code = procs[p].verifyCode
                   /\ mail'.code # ""
                   /\ cache' = cache)
          /\ Stepped(p, "fp-set")
               => CacheGet(cache', procs[p].form.email) = procs'[p].verifyCode
          /\ (SendFailedCodeLive /\ Stepped(p, "fp-get") /\ procs[p].form.email = mail.to)
               => (/\ procs'[p].pc = "fp-send"
                   /\ procs'[p].verifyCode = mail.code
                   /\ cache' = cache)
     /\ (/\ SendFailedCodeLive
         /\ Rejected("ResetPwd")
         /\ lastReq'.email = mail.to
         /\ lastReq'.pwd # "")
          => lastReq'.verifyCode # mail.code]_vars

\* a ResetPwd has succeeded with the code of a mail that was never delivered
C19_Witness ==
  /\ lastOp = "ResetPwd"
  /\ follow = "reset-after-send-failure"
  /\ result.code = Success
  /\ PwdIs(users, lastReq.email, lastReq.pwd)
  /\ CacheGet(cache, lastReq.email) = lastReq.verifyCode

\* the entry of email e was written by the step just taken
CacheWritten(e) ==
  cache'[e].code # cache[e].code \/ cache'[e].ttl > cache[e].ttl

\* C20: every cache entry belongs to the email of a stored user and holds a
\* non-empty code of CodeLen characters; an entry is written only by the
\* Cache.Set of a ForgetPwd for that email, and no step of a Register, Login or
\* ResetPwd writes the cache.
C20_CacheEntries ==
  /\ [](\A e \in Emails :
          cache[e] # NoEntry
            => (/\ EmailRegistered(e)
                /\ cache[e].code # ""
                /\ Len(cache[e].code) = CodeLen))
  /\ [][/\ (\A e \in Emails :
              CacheWritten(e)
                => \E p \in Procs : Stepped(p, "fp-set") /\ procs[p].form.email = e)
         /\ ((\/ Handled("Register") \/ Handled("Login") \/ Handled("ResetPwd")
              \/ \E p \in Procs :
                   procs'[p].pc \in {"reg-create", "reg-group", "reg-items",
                                     "login-lookup", "rp-update"}
                     /\ procs'[p] # procs[p])
               => cache' = cache)]_vars

\* a Login has succeeded while a live code is cached for the user's email
C20_Witness ==
  /\ lastOp = "Login"
  /\ result.code = Success
  /\ \E i \in 1..Len(users) :
       /\ users[i].username = lastReq.username
       /\ cache[users[i].email].ttl > 0
       /\ Len(cache[users[i].email].code) = CodeLen

====
